---- MODULE Spec2Model ----
(***************************************************************************)
(* Model of packages/core/src/numberFormat.ts (class NumberFormat): the    *)
(* locale profile built by the constructor and the text <-> number codec   *)
(* operations on it.                                                       *)
(*                                                                         *)
(* A text is a sequence of one-character tokens.  An ASCII character is    *)
(* its own token; a non-ASCII character is named by its code point         *)
(* ("U+20AC" is the euro sign).  A number is a record                      *)
(* [isNull, neg, int, frac]: the sign, the decimal digits of the integer   *)
(* magnitude (no leading zero) and the fraction digits (no trailing zero), *)
(* so that -0 and 0 stay distinguishable and no magnitude overflows.       *)
(***************************************************************************)
EXTENDS Integers, Sequences, FiniteSets, TLC

VARIABLES options, nf, pc, str, value, from, ret

vars == <<options, nf, pc, str, value, from, ret>>

(***************************************************************************)
(* Bounds of the model.                                                    *)
(***************************************************************************)
MaxLen == 3
MaxPrecision == 1

(***************************************************************************)
(* JavaScript values.                                                      *)
(***************************************************************************)
Undefined == <<"undefined">>
NullStr == <<"null">>
EmptyStr == <<>>

AsciiDigits == <<"0", "1", "2", "3", "4", "5", "6", "7", "8", "9">>

IsAsciiDigit(c) == \E i \in 1..10 : AsciiDigits[i] = c

NullNum == [isNull |-> TRUE, neg |-> FALSE, int |-> <<0>>, frac |-> <<>>]

Num(neg, int, frac) == [isNull |-> FALSE, neg |-> neg, int |-> int, frac |-> frac]

\* Number.prototype == : -0 and 0 are equal, null equals only null.
NumEq(a, b) ==
  /\ a.isNull = b.isNull
  /\ a.int = b.int
  /\ a.frac = b.frac
  /\ (a.neg = b.neg \/ (a.int = <<0>> /\ a.frac = <<>>))

(***************************************************************************)
(* String.prototype operations used by the code.                           *)
(***************************************************************************)
\* str.substr(n) and str.substr(0, n)
Drop(s, n) == SubSeq(s, (IF n > Len(s) THEN Len(s) ELSE n) + 1, Len(s))
Take(s, n) == SubSeq(s, 1, IF n > Len(s) THEN Len(s) ELSE n)

\* str.startsWith(p)
StartsWith(s, p) == Len(p) <= Len(s) /\ Take(s, Len(p)) = p

\* str.indexOf(p), 1-based; 0 when p does not occur
IndexOf(s, p) ==
  LET hits == {i \in 1..(Len(s) - Len(p) + 1) : SubSeq(s, i, i + Len(p) - 1) = p}
  IN  IF Len(p) = 0 THEN 1
      ELSE IF hits = {} THEN 0
      ELSE CHOOSE i \in hits : \A j \in hits : i <= j

\* str.replace(p, r) with a string pattern: the first occurrence only
ReplaceFirst(s, p, r) ==
  LET i == IndexOf(s, p)
  IN  IF i = 0 THEN s
      ELSE Take(s, i - 1) \o r \o Drop(s, i + Len(p) - 1)

\* str.replace(new RegExp(escapeRegExp(p), 'g'), r): every occurrence, left to right
RECURSIVE ReplaceAll(_, _, _)
ReplaceAll(s, p, r) ==
  LET i == IndexOf(s, p)
  IN  IF Len(p) = 0 \/ i = 0 THEN s
      ELSE Take(s, i - 1) \o r \o ReplaceAll(Drop(s, i + Len(p) - 1), p, r)

\* str.split(p)[0]
SplitFirst(s, p) ==
  LET i == IndexOf(s, p)
  IN  IF Len(p) = 0 THEN (IF Len(s) = 0 THEN s ELSE Take(s, 1))
      ELSE IF i = 0 THEN s
      ELSE Take(s, i - 1)

\* parts.map(part => part.value).join('')
RECURSIVE JoinValues(_)
JoinValues(parts) ==
  IF parts = <<>> THEN <<>> ELSE Head(parts).value \o JoinValues(Tail(parts))

\* parts.findIndex(part => part.type === t), 0-based; -1 when there is none
FindIndex(parts, t) ==
  LET hits == {i \in 1..Len(parts) : parts[i].type = t}
  IN  IF hits = {} THEN -1
      ELSE (CHOOSE i \in hits : \A j \in hits : i <= j) - 1

\* parts.find(part => part.type === t)?.value
FindValue(parts, t) ==
  LET i == FindIndex(parts, t)
  IN  IF i = -1 THEN Undefined ELSE parts[i + 1].value

\* parts.slice(a, b) with 0-based, possibly negative, indices
Slice(parts, a, b) ==
  LET n  == Len(parts)
      lo == IF a < 0 THEN (IF n + a < 0 THEN 0 ELSE n + a) ELSE (IF a > n THEN n ELSE a)
      hi == IF b < 0 THEN (IF n + b < 0 THEN 0 ELSE n + b) ELSE (IF b > n THEN n ELSE b)
  IN  IF lo >= hi THEN <<>> ELSE SubSeq(parts, lo + 1, hi)

(***************************************************************************)
(* The host's locale formatting capability (Intl.NumberFormat and          *)
(* Number.prototype.toLocaleString), for the locales and styles the model  *)
(* constructs profiles of.                                                 *)
(***************************************************************************)
Part(type, val) == [type |-> type, value |-> val]

ArabDigits == <<"U+0660", "U+0661", "U+0662", "U+0663", "U+0664",
                "U+0665", "U+0666", "U+0667", "U+0668", "U+0669">>

\* digits, decimal separator, grouping separator and minus sign of a locale
HostSymbols(loc) ==
  CASE loc = "en"    -> [digits |-> AsciiDigits, decimal |-> <<".">>, group |-> <<",">>,
                         minus |-> <<"-">>]
    [] loc = "de"    -> [digits |-> AsciiDigits, decimal |-> <<",">>, group |-> <<".">>,
                         minus |-> <<"-">>]
    [] loc = "nl"    -> [digits |-> AsciiDigits, decimal |-> <<",">>, group |-> <<".">>,
                         minus |-> <<"-">>]
    [] loc = "ar-EG" -> [digits |-> ArabDigits, decimal |-> <<"U+066B">>,
                         group |-> <<"U+066C">>, minus |-> <<"U+061C", "-">>]

CurrencySymbol(cur) == IF cur = "EUR" THEN <<"U+20AC">> ELSE <<"U+00A5">>

\* the currency's default fraction digits (ISO 4217 minor unit)
CurrencyDigits(cur) == IF cur = "EUR" THEN 2 ELSE 0

\* The pattern of a (locale, style, currency, unit): the parts before the
\* integer for a negative and for a non-negative value, the parts after the
\* number, and the default fraction bounds of the style.
HostPattern(loc, style, cur, unit) ==
  LET sym   == HostSymbols(loc)
      minus == Part("minusSign", sym.minus)
      money == Part("currency", CurrencySymbol(cur))
      nbsp  == Part("literal", <<"U+00A0">>)
  IN  CASE style = "decimal" ->
             [neg |-> <<minus>>, pos |-> <<>>, suf |-> <<>>, min |-> 0, max |-> 3]
        [] style = "percent" ->
             [neg |-> <<minus>>, pos |-> <<>>,
              suf |-> <<Part("percentSign", <<"%">>)>>, min |-> 0, max |-> 0]
        [] style = "unit" ->
             [neg |-> <<minus>>, pos |-> <<>>,
              suf |-> <<Part("literal", <<" ">>), Part("unit", <<"G", "b">>)>>,
              min |-> 0, max |-> 3]
        [] style = "currency" /\ loc = "en" ->
             [neg |-> <<minus, money>>, pos |-> <<money>>, suf |-> <<>>,
              min |-> CurrencyDigits(cur), max |-> CurrencyDigits(cur)]
        [] style = "currency" /\ loc = "nl" ->
             [neg |-> <<money, nbsp, minus>>, pos |-> <<money, nbsp>>, suf |-> <<>>,
              min |-> CurrencyDigits(cur), max |-> CurrencyDigits(cur)]
        [] style = "currency" /\ loc \notin {"en", "nl"} ->
             [neg |-> <<minus>>, pos |-> <<>>, suf |-> <<nbsp, money>>,
              min |-> CurrencyDigits(cur), max |-> CurrencyDigits(cur)]

\* resolvedOptions(): an option is <<>> when not given, <<n>> when given
ResolvedMin(pat, optMin) == IF optMin = <<>> THEN pat.min ELSE optMin[1]

ResolvedMax(pat, optMin, optMax) ==
  IF optMax # <<>> THEN optMax[1]
  ELSE IF optMin # <<>> /\ optMin[1] > pat.max THEN optMin[1]
  ELSE pat.max

\* the digits of an integer magnitude, without leading zeros
RECURSIVE IntegerDigits(_)
IntegerDigits(ds) ==
  IF Len(ds) > 1 /\ ds[1] = 0 THEN IntegerDigits(Tail(ds))
  ELSE IF ds = <<>> THEN <<0>>
  ELSE ds

\* add one in the last place of a digit run
RECURSIVE IncDigits(_)
IncDigits(ds) ==
  IF ds = <<>> THEN [ds |-> <<>>, carry |-> 1]
  ELSE LET n == Len(ds)
       IN  IF ds[n] < 9 THEN [ds |-> Take(ds, n - 1) \o <<ds[n] + 1>>, carry |-> 0]
           ELSE LET r == IncDigits(Take(ds, n - 1))
                IN  [ds |-> r.ds \o <<0>>, carry |-> r.carry]

\* percent style renders value * 100
TimesHundred(v) ==
  LET f == v.frac \o <<0, 0>>
  IN  [int |-> IntegerDigits(v.int \o <<f[1], f[2]>>), frac |-> Drop(v.frac, 2)]

\* round half away from zero to at most maxFD fraction digits
RoundHalfExpand(m, maxFD) ==
  IF Len(m.frac) <= maxFD THEN m
  ELSE LET kept == Take(m.frac, maxFD)
           r    == IncDigits(kept)
           i    == IncDigits(m.int)
       IN  IF m.frac[maxFD + 1] < 5 THEN [int |-> m.int, frac |-> kept]
           ELSE IF r.carry = 0 THEN [int |-> m.int, frac |-> r.ds]
           ELSE [int |-> (IF i.carry = 1 THEN <<1>> ELSE <<>>) \o i.ds, frac |-> r.ds]

\* drop trailing zeros beyond minFD, pad with zeros up to minFD
RECURSIVE FractionDigits(_, _)
FractionDigits(frac, minFD) ==
  IF Len(frac) < minFD THEN FractionDigits(frac \o <<0>>, minFD)
  ELSE IF Len(frac) > minFD /\ frac[Len(frac)] = 0
       THEN FractionDigits(Take(frac, Len(frac) - 1), minFD)
  ELSE frac

Glyphs(ds, digits) == [i \in 1..Len(ds) |-> digits[ds[i] + 1]]

\* the integer digits in groups of three
RECURSIVE GroupedInteger(_, _, _)
GroupedInteger(glyphs, group, useGrouping) ==
  LET n == Len(glyphs)
  IN  IF n <= 3 \/ ~useGrouping THEN <<Part("integer", glyphs)>>
      ELSE GroupedInteger(Take(glyphs, n - 3), group, useGrouping)
             \o <<Part("group", group), Part("integer", Drop(glyphs, n - 3))>>

\* Intl.NumberFormat(loc, {style, currency, unit, minimumFractionDigits,
\* maximumFractionDigits, useGrouping}).formatToParts(v)
FormatToParts(loc, style, cur, unit, optMin, optMax, useGrouping, v) ==
  LET sym   == HostSymbols(loc)
      pat   == HostPattern(loc, style, cur, unit)
      minFD == ResolvedMin(pat, optMin)
      maxFD == ResolvedMax(pat, optMin, optMax)
      m     == RoundHalfExpand(IF style = "percent" THEN TimesHundred(v)
                               ELSE [int |-> v.int, frac |-> v.frac], maxFD)
      frac  == FractionDigits(m.frac, minFD)
      body  == GroupedInteger(Glyphs(m.int, sym.digits), sym.group, useGrouping)
                 \o (IF frac = <<>> THEN <<>>
                     ELSE <<Part("decimal", sym.decimal),
                            Part("fraction", Glyphs(frac, sym.digits))>>)
  IN  (IF v.neg THEN pat.neg ELSE pat.pos) \o body \o pat.suf

\* Number.prototype.toLocaleString(loc, options)
ToLocaleString(loc, style, cur, unit, optMin, optMax, useGrouping, v) ==
  JoinValues(FormatToParts(loc, style, cur, unit, optMin, optMax, useGrouping, v))

(***************************************************************************)
(* class NumberFormat                                                      *)
(***************************************************************************)
DECIMAL_SEPARATORS == <<<<",">>, <<".">>, <<"U+066B">>>>

\* the probe value -123456.768 the constructor formats
ProbeValue == Num(TRUE, <<1, 2, 3, 4, 5, 6>>, <<7, 6, 8>>)

\* numberFormat.formatToParts(-123456.768)
ProbeParts(opts) ==
  FormatToParts(opts.locale, opts.formatStyle, opts.currency, opts.unit,
                <<>>, <<>>, TRUE, ProbeValue)

\* a plausible slip: the requested precision is honoured before the missing
\* decimal symbol is looked at
FractionBoundsPrecisionFirst(opts, decimalSymbol) ==
  LET pat == HostPattern(opts.locale, opts.formatStyle, opts.currency, opts.unit)
  IN  IF opts.precision # <<>>
      THEN [min |-> opts.precision[1], max |-> opts.precision[1]]
      ELSE IF decimalSymbol = Undefined THEN [min |-> 0, max |-> 0]
      ELSE [min |-> ResolvedMin(pat, <<>>), max |-> ResolvedMax(pat, <<>>, <<>>)]

\* the constructor's minimumFractionDigits / maximumFractionDigits
FractionBounds(opts, decimalSymbol) ==
  LET pat == HostPattern(opts.locale, opts.formatStyle, opts.currency, opts.unit)
  IN  IF decimalSymbol = Undefined THEN [min |-> 0, max |-> 0]
      ELSE IF opts.precision # <<>>
           THEN [min |-> opts.precision[1], max |-> opts.precision[1]]
      ELSE [min |-> ResolvedMin(pat, <<>>), max |-> ResolvedMax(pat, <<>>, <<>>)]

\* new NumberFormat(options)
Constructor(opts) ==
  LET parts == ProbeParts(opts)
      decimalSymbol == FindValue(parts, "decimal")
      fractionDigits == FractionBounds(opts, decimalSymbol)
  IN  [locale |-> opts.locale,
       style |-> opts.formatStyle,
       currency |-> opts.currency,
       unit |-> opts.unit,
       digits |-> [i \in 1..10 |->
                     ToLocaleString(opts.locale, "decimal", "", "", <<>>, <<>>, TRUE,
                                    Num(FALSE, <<i - 1>>, <<>>))],
       decimalSymbol |-> decimalSymbol,
       groupingSymbol |-> FindValue(parts, "group"),
       minusSymbol |-> FindValue(parts, "minusSign"),
       minimumFractionDigits |-> fractionDigits.min,
       maximumFractionDigits |-> fractionDigits.max,
       prefix |-> JoinValues(Slice(parts, 1, FindIndex(parts, "integer"))),
       negativePrefix |-> JoinValues(Slice(parts, 0, FindIndex(parts, "integer"))),
       suffix |-> JoinValues(Slice(parts, FindIndex(parts, "fraction") + 1, Len(parts)))]

\* normalizeDigits(str): locale digit glyphs to ASCII digits
RECURSIVE NormalizeFrom(_, _, _)
NormalizeFrom(this, s, i) ==
  IF i > 10 THEN s
  ELSE NormalizeFrom(this, ReplaceAll(s, this.digits[i], <<AsciiDigits[i]>>), i + 1)

normalizeDigits(this, s) ==
  IF this.digits[1] # <<"0">> THEN NormalizeFrom(this, s, 1) ELSE s

\* onlyDigits(str)
onlyDigits(this, s) == SelectSeq(normalizeDigits(this, s), IsAsciiDigit)

\* isNegative(str)
isNegative(this, s) ==
  \/ StartsWith(s, this.negativePrefix)
  \/ StartsWith(ReplaceFirst(s, <<"-">>, this.minusSymbol), this.minusSymbol)

\* stripGroupingSeparator(str)
stripGroupingSeparator(this, s) == ReplaceAll(s, this.groupingSymbol, <<>>)

\* stripMinusSymbol(str)
stripMinusSymbol(this, s) ==
  ReplaceFirst(ReplaceFirst(s, <<"-">>, this.minusSymbol), this.minusSymbol, <<>>)

\* a plausible slip: the three removals chained as alternatives, so that one
\* call removes at most one affix
stripFirstAffixFound(this, s) ==
  IF IndexOf(s, this.negativePrefix) # 0 THEN ReplaceFirst(s, this.negativePrefix, <<>>)
  ELSE IF this.prefix # <<>> /\ IndexOf(s, this.prefix) # 0
       THEN ReplaceFirst(s, this.prefix, <<>>)
  ELSE ReplaceFirst(s, this.suffix, <<>>)

\* stripPrefixOrSuffix(str)
stripPrefixOrSuffix(this, s) ==
  ReplaceFirst(ReplaceFirst(ReplaceFirst(s, this.negativePrefix, <<>>),
                            this.prefix, <<>>),
               this.suffix, <<>>)

\* the length of the longest run of ASCII digits s starts with
RECURSIVE DigitRun(_)
DigitRun(s) ==
  IF s = <<>> \/ ~IsAsciiDigit(Head(s)) THEN 0 ELSE 1 + DigitRun(Tail(s))

NoMatch == [ok |-> FALSE, int |-> <<>>, rest |-> <<>>]

\* what ^(0|[1-9]\d*) matches at the start of s, given that the pattern goes
\* on with a non-digit or the end: the leading digit run, unless it is a run
\* of several digits led by 0
MatchInteger(s) ==
  LET n == DigitRun(s)
  IN  IF n = 0 THEN NoMatch
      ELSE IF Head(s) = "0"
           THEN [ok |-> TRUE, int |-> <<"0">>, rest |-> Drop(s, 1)]
      ELSE [ok |-> TRUE, int |-> Take(s, n), rest |-> Drop(s, n)]

\* a plausible slip: the pattern without its closing $, so that anything may
\* follow the decimal symbol
MatchNumberUnanchored(this, s) ==
  LET m   == MatchInteger(s)
      dec == this.decimalSymbol
      none == [ok |-> FALSE, int |-> <<>>, frac |-> <<>>]
  IN  IF ~m.ok THEN none
      ELSE IF dec # Undefined /\ dec # <<>> /\ StartsWith(m.rest, dec)
           THEN [ok |-> TRUE, int |-> m.int,
                 frac |-> Take(Drop(m.rest, Len(dec)), DigitRun(Drop(m.rest, Len(dec))))]
      ELSE [ok |-> TRUE, int |-> m.int, frac |-> <<>>]

\* s.match(new RegExp(`^${INTEGER_PATTERN}${fraction}$`)): the groups
\* [ok, int, frac], frac being '' when the second group did not take part
MatchNumber(this, s) ==
  LET m   == MatchInteger(s)
      dec == this.decimalSymbol
      none == [ok |-> FALSE, int |-> <<>>, frac |-> <<>>]
  IN  IF ~m.ok THEN none
      ELSE IF m.rest = <<>> THEN [ok |-> TRUE, int |-> m.int, frac |-> <<>>]
      ELSE IF dec # Undefined /\ dec # <<>> /\ StartsWith(m.rest, dec)
              /\ DigitRun(Drop(m.rest, Len(dec))) = Len(m.rest) - Len(dec)
           THEN [ok |-> TRUE, int |-> m.int, frac |-> Drop(m.rest, Len(dec))]
      ELSE none

DigitValue(c) == (CHOOSE i \in 1..10 : AsciiDigits[i] = c) - 1

DigitValues(s) == [i \in 1..Len(s) |-> DigitValue(s[i])]

\* Number(`${sign}${int}.${frac}`) for digit runs int and frac
ToNumber(negative, int, frac) ==
  Num(negative, IntegerDigits(DigitValues(int)), FractionDigits(DigitValues(frac), 0))

\* integerNumber.toLocaleString(locale, {...options, useGrouping}), digits
\* normalized and affixes stripped
RenderedInteger(this, integerNumber, useGrouping) ==
  stripPrefixOrSuffix(this, normalizeDigits(this,
    ToLocaleString(this.locale, this.style, this.currency, this.unit,
                   <<0>>, <<>>, useGrouping, Num(FALSE, integerNumber, <<>>))))

\* a plausible slip: only the grouped rendering is accepted
isValidIntegerFormatGroupedOnly(this, formattedNumber, integerNumber) ==
  formattedNumber = RenderedInteger(this, integerNumber, TRUE)

\* isValidIntegerFormat(formattedNumber, integerNumber)
isValidIntegerFormat(this, formattedNumber, integerNumber) ==
  formattedNumber \in {RenderedInteger(this, integerNumber, TRUE),
                       RenderedInteger(this, integerNumber, FALSE)}

\* parse(str)
parse(this, s) ==
  IF s = NullStr \/ s = EmptyStr THEN NullNum
  ELSE LET negative == isNegative(this, s)
           stripped == stripMinusSymbol(this,
                         stripPrefixOrSuffix(this, normalizeDigits(this, s)))
           match    == MatchNumber(this, stripGroupingSeparator(this, stripped))
           hasDec   == this.decimalSymbol # Undefined /\ this.decimalSymbol # <<>>
       IN  IF /\ match.ok
              /\ isValidIntegerFormat(this,
                   IF hasDec THEN SplitFirst(stripped, this.decimalSymbol) ELSE stripped,
                   IntegerDigits(DigitValues(match.int)))
           THEN ToNumber(negative, onlyDigits(this, match.int), onlyDigits(this, match.frac))
           ELSE NullNum

\* format(value), with the profile's fraction bounds
format(this, v) ==
  IF v.isNull THEN EmptyStr
  ELSE ToLocaleString(this.locale, this.style, this.currency, this.unit,
                      <<this.minimumFractionDigits>>, <<this.maximumFractionDigits>>,
                      TRUE, v)

\* a plausible slip: the grouping symbols are left in the text
isFractionIncompleteGrouped(this, s) ==
  LET m == MatchInteger(normalizeDigits(this, s))
  IN  m.ok /\ m.rest = this.decimalSymbol

\* isFractionIncomplete(str)
isFractionIncomplete(this, s) ==
  LET m == MatchInteger(normalizeDigits(this, stripGroupingSeparator(this, s)))
  IN  m.ok /\ m.rest = this.decimalSymbol

\* normalizeDecimalSeparator(str, from)
RECURSIVE NormalizeSeparatorFrom(_, _, _, _)
NormalizeSeparatorFrom(this, s, frm, i) ==
  IF i > Len(DECIMAL_SEPARATORS) THEN s
  ELSE NormalizeSeparatorFrom(this,
         Take(s, frm) \o ReplaceFirst(Drop(s, frm), DECIMAL_SEPARATORS[i], this.decimalSymbol),
         frm, i + 1)

normalizeDecimalSeparator(this, s, frm) == NormalizeSeparatorFrom(this, s, frm, 1)

(***************************************************************************)
(* Inputs.                                                                 *)
(***************************************************************************)
Options ==
  { [locale |-> c[1], formatStyle |-> c[2], currency |-> c[3], unit |-> c[4],
     precision |-> p] :
      c \in { <<"en", "decimal", "", "">>,
              <<"en", "currency", "EUR", "">>,
              <<"en", "currency", "JPY", "">>,
              <<"en", "percent", "", "">>,
              <<"en", "unit", "", "gigabit">>,
              <<"de", "decimal", "", "">>,
              <<"de", "currency", "EUR", "">>,
              <<"nl", "currency", "EUR", "">>,
              <<"ar-EG", "decimal", "", "">> },
      p \in {<<>>} \cup {<<n>> : n \in 0..MaxPrecision} }

\* what a user types in a field of this profile: digits, separators, minus
\* signs and the literals the host renders around a number
Atoms(this) ==
  LET pat == HostPattern(this.locale, this.style, this.currency, this.unit)
      sym == HostSymbols(this.locale)
  IN  {<<sym.digits[1]>>, <<sym.digits[2]>>, <<sym.digits[3], sym.digits[4], sym.digits[5]>>}
        \cup {<<",">>, <<".">>, <<"-">>, sym.decimal, sym.group, sym.minus}
        \cup {pat.pos[i].value : i \in 1..Len(pat.pos)}
        \cup {pat.suf[i].value : i \in 1..Len(pat.suf)}

RECURSIVE Flatten(_)
Flatten(ss) == IF ss = <<>> THEN <<>> ELSE Head(ss) \o Flatten(Tail(ss))

Typed(this) ==
  {Flatten(ss) : ss \in UNION {[1..n -> Atoms(this)] : n \in 0..MaxLen}}

\* the texts of the documented scenarios
Scenarios ==
  { <<"1", ",", "2", "3", "4">>, <<"1", "2", "3", "4">>, <<"1", ",", "2", "3", ",", "4">>,
    <<"1", "2", ".">>, <<"1", "2", ".", "3">>, <<"1", ",", "2", "3", "4", ".">>,
    <<"1", "2", ".", "3", "4", "5", "7", "%">>,
    <<"-", "1", "2", "3", ",", "4", "5", "6", ".", "7", "6", "8">>,
    <<"U+20AC", "1">> }

Texts(this) == Typed(this) \cup Scenarios \cup {NullStr}

Values ==
  {NullNum, ProbeValue}
    \cup { Num(n, i, f) : n \in BOOLEAN, i \in {<<0>>, <<1>>, <<1, 2>>, <<1, 2, 3, 4>>},
                          f \in {<<>>, <<5>>, <<0, 9>>, <<1, 2, 3, 4, 5, 6>>} }

(***************************************************************************)
(* The state machine: a profile is constructed, then one operation is      *)
(* called on it.                                                           *)
(***************************************************************************)
Init ==
  /\ options \in Options
  /\ nf = Constructor(options)
  /\ pc = "constructed"
  /\ str = EmptyStr
  /\ value = NullNum
  /\ from = 0
  /\ ret = EmptyStr

Parse ==
  /\ pc = "constructed"
  /\ \E s \in Texts(nf) :
       /\ str' = s
       /\ ret' = parse(nf, s)
  /\ pc' = "parse"
  /\ UNCHANGED <<options, nf, value, from>>

Format ==
  /\ pc = "constructed"
  /\ \E v \in Values :
       /\ value' = v
       /\ ret' = format(nf, v)
  /\ pc' = "format"
  /\ UNCHANGED <<options, nf, str, from>>

StripPrefixOrSuffix ==
  /\ pc = "constructed"
  /\ \E s \in Texts(nf) \ {NullStr} :
       /\ str' = s
       /\ ret' = stripPrefixOrSuffix(nf, s)
  /\ pc' = "stripPrefixOrSuffix"
  /\ UNCHANGED <<options, nf, value, from>>

IsFractionIncomplete ==
  /\ pc = "constructed"
  /\ nf.decimalSymbol # Undefined
  /\ \E s \in Texts(nf) \ {NullStr} :
       /\ str' = s
       /\ ret' = isFractionIncomplete(nf, s)
  /\ pc' = "isFractionIncomplete"
  /\ UNCHANGED <<options, nf, value, from>>

NormalizeDecimalSeparator ==
  /\ pc = "constructed"
  /\ nf.decimalSymbol # Undefined
  /\ \E s \in Texts(nf) \ {NullStr} : \E f \in 0..Len(s) :
       /\ str' = s
       /\ from' = f
       /\ ret' = normalizeDecimalSeparator(nf, s, f)
  /\ pc' = "normalizeDecimalSeparator"
  /\ UNCHANGED <<options, nf, value>>

Next ==
  \/ Parse
  \/ Format
  \/ StripPrefixOrSuffix
  \/ IsFractionIncomplete
  \/ NormalizeDecimalSeparator

Spec == Init /\ [][Next]_vars

(***************************************************************************)
(* The claims.                                                             *)
(***************************************************************************)
EnDecimal == options.locale = "en" /\ options.formatStyle = "decimal"

\* what is left of a text for the grammar: digits normalized, affixes and
\* the minus indicator stripped
Stripped(this, s) ==
  stripMinusSymbol(this, stripPrefixOrSuffix(this, normalizeDigits(this, s)))

HasDecimalSymbol(this) == this.decimalSymbol # Undefined

AllDigits(s) == \A i \in 1..Len(s) : IsAsciiDigit(s[i])

\* an integer run: digits only, no leading zero unless the run is "0"
IsIntegerRun(s) == Len(s) >= 1 /\ AllDigits(s) /\ (Len(s) = 1 \/ s[1] # "0")

\* an integer run, optionally followed by the decimal symbol and fraction digits
IsNumberText(this, r) ==
  \E k \in 1..Len(r) :
    /\ IsIntegerRun(Take(r, k))
    /\ \/ k = Len(r)
       \/ /\ HasDecimalSymbol(this)
          /\ StartsWith(Drop(r, k), this.decimalSymbol)
          /\ AllDigits(Drop(r, k + Len(this.decimalSymbol)))

\* an integer run immediately followed by the decimal symbol and nothing else
IsIncompleteFraction(this, r) ==
  \E k \in 1..Len(r) : IsIntegerRun(Take(r, k)) /\ Drop(r, k) = this.decimalSymbol

Contains(s, p) == IndexOf(s, p) # 0

EnPercent == options.locale = "en" /\ options.formatStyle = "percent"

\* C1: round trip - for every style and every value v that needs no more
\* fraction digits than maximumFractionDigits, parse(format(v)) = v; for an
\* 'en' Percent profile format(0.123456) is "12.3457%" and parse("12.3457%")
\* is 0.123457.
C1_RoundTrip ==
  /\ (pc = "format" /\ ~value.isNull /\ Len(value.frac) <= nf.maximumFractionDigits)
       => NumEq(parse(nf, ret), value)
  /\ (pc = "format" /\ EnPercent /\ value = Num(FALSE, <<0>>, <<1, 2, 3, 4, 5, 6>>))
       => ret = <<"1", "2", ".", "3", "4", "5", "7", "%">>
  /\ (pc = "parse" /\ EnPercent /\ str = <<"1", "2", ".", "3", "4", "5", "7", "%">>)
       => ret = Num(FALSE, <<0>>, <<1, 2, 3, 4, 5, 7>>)

\* C2: parse returns a number only when the pre-decimal portion of the
\* stripped text is the canonical rendering of its integer magnitude, grouped
\* or ungrouped; in 'en' Decimal "1,234" and "1234" parse to 1234 and
\* "1,23,4" parses to null.
C2_GroupingValidation ==
  pc = "parse" =>
    /\ ~ret.isNull =>
         LET whole == Stripped(nf, str)
             head  == IF HasDecimalSymbol(nf) THEN SplitFirst(whole, nf.decimalSymbol)
                      ELSE whole
         IN  \E g \in BOOLEAN :
               head = stripPrefixOrSuffix(nf, normalizeDigits(nf,
                        ToLocaleString(nf.locale, nf.style, nf.currency, nf.unit,
                                       <<0>>, <<>>, g, Num(FALSE, ret.int, <<>>))))
    /\ (EnDecimal /\ str \in {<<"1", ",", "2", "3", "4">>, <<"1", "2", "3", "4">>})
         => ret = Num(FALSE, <<1, 2, 3, 4>>, <<>>)
    /\ (EnDecimal /\ str = <<"1", ",", "2", "3", ",", "4">>) => ret.isNull

C2_Witness ==
  /\ pc = "parse"
  /\ EnDecimal
  /\ str = <<"1", ",", "2", "3", "4">>
  /\ ret = Num(FALSE, <<1, 2, 3, 4>>, <<>>)

\* C3: parse(null) and parse("") are null, and parse is null for every text
\* whose remainder (affixes, minus indicator and grouping symbols stripped) is
\* not an integer run optionally followed by decimalSymbol and fraction digits.
C3_UnparsableIsNull ==
  pc = "parse" =>
    /\ str \in {NullStr, EmptyStr} => ret.isNull
    /\ (str # NullStr /\ ~IsNumberText(nf, stripGroupingSeparator(nf, Stripped(nf, str))))
         => ret.isNull

C3_Witness ==
  /\ pc = "parse"
  /\ EnDecimal
  /\ str = <<"1", ".", ".">>
  /\ ret.isNull

\* C4 as stated: stripPrefixOrSuffix(stripPrefixOrSuffix(s)) = stripPrefixOrSuffix(s)
\* for every string s.
C4_StripIdempotent ==
  pc = "stripPrefixOrSuffix" => stripPrefixOrSuffix(nf, ret) = ret

\* C4 as amended: stripping the affixes of a formatted value is idempotent -
\* for s = format(v), stripPrefixOrSuffix(stripPrefixOrSuffix(s)) = stripPrefixOrSuffix(s).
C4_StripIdempotentOnFormatted ==
  pc = "format" =>
    stripPrefixOrSuffix(nf, stripPrefixOrSuffix(nf, ret)) = stripPrefixOrSuffix(nf, ret)

C4_Witness ==
  /\ pc = "format"
  /\ value = Num(TRUE, <<1, 2, 3, 4>>, <<5>>)
  /\ options.locale = "de" /\ options.formatStyle = "currency"
  /\ stripPrefixOrSuffix(nf, ret) = <<"1", ".", "2", "3", "4", ",", "5", "0">>

\* every separator alternative in s rewritten to the decimal symbol
RewriteEvery(this, s) ==
  Flatten([i \in 1..Len(s) |->
             IF \E j \in 1..Len(DECIMAL_SEPARATORS) : DECIMAL_SEPARATORS[j] = <<s[i]>>
             THEN this.decimalSymbol ELSE <<s[i]>>])

\* C5: normalizeDecimalSeparator(text, fromIndex) rewrites every comma, period
\* and Arabic decimal separator at or after fromIndex into decimalSymbol and
\* leaves the characters before fromIndex unchanged.
C5_RewritesEverySeparator ==
  pc = "normalizeDecimalSeparator" =>
    ret = Take(str, from) \o RewriteEvery(nf, Drop(str, from))

\* C6: isFractionIncomplete(text) is true exactly when the text, digits
\* normalized and grouping symbols removed, is an integer run immediately
\* followed by decimalSymbol; in 'en' "12." gives true and "12.3" false.
C6_FractionIncomplete ==
  pc = "isFractionIncomplete" =>
    /\ ret = IsIncompleteFraction(nf, stripGroupingSeparator(nf, normalizeDigits(nf, str)))
    /\ (options.locale = "en" /\ str = <<"1", "2", ".">>) => ret
    /\ (options.locale = "en" /\ str = <<"1", "2", ".", "3">>) => ~ret

C6_Witness ==
  /\ pc = "isFractionIncomplete"
  /\ EnDecimal
  /\ str = <<"1", ",", "2", "3", "4", ".">>
  /\ ret = TRUE

\* the last index (1-based) of a part of type t; 0 when there is none
LastIndexOfType(parts, t) ==
  LET hits == {i \in 1..Len(parts) : parts[i].type = t}
  IN  IF hits = {} THEN 0 ELSE CHOOSE i \in hits : \A j \in hits : j <= i

\* C7: suffix is the concatenation of the probe parts after the last fraction
\* part or, when the probe has no fraction part, after the last integer part.
C7_SuffixAfterLastDigits ==
  LET parts == ProbeParts(options)
      last  == IF LastIndexOfType(parts, "fraction") # 0
               THEN LastIndexOfType(parts, "fraction")
               ELSE LastIndexOfType(parts, "integer")
  IN  nf.suffix = JoinValues(SubSeq(parts, last + 1, Len(parts)))

\* C8: prefix is the concatenation of the probe parts strictly between the
\* sign part and the first integer part and never contains the minus symbol;
\* negativePrefix is the concatenation of all parts before the first integer
\* part.
C8_PrefixBetweenSignAndInteger ==
  LET parts == ProbeParts(options)
      sign  == FindIndex(parts, "minusSign") + 1
      first == FindIndex(parts, "integer") + 1
  IN  /\ nf.prefix = JoinValues(SubSeq(parts, sign + 1, first - 1))
      /\ ~Contains(nf.prefix, nf.minusSymbol)
      /\ nf.negativePrefix = JoinValues(SubSeq(parts, 1, first - 1))

C10_MinusNeverDropped ==
  (pc = "parse" /\ str # NullStr /\ (Contains(str, nf.minusSymbol) \/ Contains(str, <<"-">>)))
    => (ret.isNull \/ ret.neg)

====
